---- MODULE Spec2Model ----
(***************************************************************************)
(* Model of the Africa monitoring server (africa-server.js, the second     *)
(* half of src/update_hourly.sh), of the hourly update script (the first   *)
(* half of the same file) and of the update loop of the start script.      *)
(*                                                                         *)
(* The server is modelled at the level of the calls its handler makes on   *)
(* the response object: setHeader, writeHead, end.  A request is one slot  *)
(* of `reqs`; the asynchronous fs.readFile of a request completes at a     *)
(* moment of its own, so reads of several requests complete in any order   *)
(* and interleave with the update script and with external file changes.   *)
(***************************************************************************)
EXTENDS Integers, FiniteSets, Sequences, TLC

\* ------------------------------------------------------------------ bounds
\* number of request slots (requests that can be in flight together)
MaxReq == 2

\* ------------------------------------------------------- inputs enumerated
Methods == {"GET", "OPTIONS", "POST"}

Urls == {"/", "/africa.html", "/africa_monitoring.json", "/unknown"}

\* bytes the static page can hold
HtmlContents == {"<html>Africa</html>"}

\* bytes the data file can hold; the second one is not JSON
JsonContents == {"{\"countries\":[]}", "not json"}

\* exit codes of python3 africa_monitor.py
ExitCodes == {0, 1}

\* a file that does not exist (or cannot be read)
Absent == [exists |-> FALSE, bytes |-> ""]

\* a readable file holding `bytes`
File(bytes) == [exists |-> TRUE, bytes |-> bytes]

\* ------------------------------------------------------------ path helpers
DATA_DIR == "."

\* path.join(DATA_DIR, name)
pathJoin(dir, name) == dir \o "/" \o name

HtmlPath == pathJoin(DATA_DIR, "africa.html")

JsonPath == pathJoin(DATA_DIR, "africa_monitoring.json")

\* destination of the cp of the update script
CpTarget == "./africa_monitoring.json"

\* file the generator leaves its output in
TmpPath == "/tmp/africa_data/africa_monitoring.json"

Paths == {HtmlPath, JsonPath, TmpPath}

\* ------------------------------------------------------- response object
NoHeaders == [k \in {} |-> ""]

\* a fresh http.ServerResponse
NewResponse == [statusCode |-> 0, headers |-> NoHeaders, body |-> "", ends |-> 0]

\* headers `over` laid over headers `base`
MergeHeaders(base, over) ==
    [k \in (DOMAIN base) \cup (DOMAIN over) |->
        IF k \in DOMAIN over THEN over[k] ELSE base[k]]

\* res.setHeader(name, value)
setHeader(res, name, value) ==
    [res EXCEPT !.headers = MergeHeaders(@, name :> value)]

\* a writeHead that forgets the headers set before it
writeHeadReplacing(res, statusCode, headers) ==
    [res EXCEPT !.statusCode = statusCode, !.headers = headers]

\* res.writeHead(statusCode, headers): the headers given are merged with the
\* ones set by setHeader, the ones given here taking precedence
writeHead(res, statusCode, headers) ==
    [res EXCEPT !.statusCode = statusCode,
                !.headers = MergeHeaders(@, headers)]

\* res.end(data)
end(res, data) ==
    [res EXCEPT !.body = data, !.ends = @ + 1]

\* a serializer that puts a space after the colon
JSONstringifySpaced(key, value) ==
    "{" \o "\"" \o key \o "\"" \o ": " \o "\"" \o value \o "\"" \o "}"

\* JSON.stringify of an object with one string member
JSONstringify(key, value) ==
    "{" \o "\"" \o key \o "\"" \o ":" \o "\"" \o value \o "\"" \o "}"

\* ------------------------------------------------------------------ state
VARIABLES
    fs,         \* the file system: path -> File(bytes), or Absent
    reqs,       \* the requests: slot -> method, url, position, response
    updatePc,   \* position of the update script
    exitCode    \* $? after python3 africa_monitor.py

vars == <<fs, reqs, updatePc, exitCode>>

ReqIds == 1..MaxReq

NoRequest ==
    [pc |-> "none", method |-> "", url |-> "", filePath |-> "",
     res |-> NewResponse, err |-> FALSE, data |-> ""]

Init ==
    /\ fs = [p \in Paths |->
                IF p = HtmlPath THEN File("<html>Africa</html>") ELSE Absent]
    /\ reqs = [r \in ReqIds |-> NoRequest]
    /\ updatePc = "sleep"
    /\ exitCode = 0

\* --------------------------------------------------------------- file reads
\* a read that answers from the data an earlier request got for the same path
ReadFileCached(path) ==
    IF \E q \in ReqIds : /\ reqs[q].pc = "done"
                         /\ reqs[q].filePath = path
                         /\ ~reqs[q].err
        THEN LET q == CHOOSE q \in ReqIds : /\ reqs[q].pc = "done"
                                            /\ reqs[q].filePath = path
                                            /\ ~reqs[q].err
             IN  [err |-> FALSE, data |-> reqs[q].data]
        ELSE IF fs[path].exists
            THEN [err |-> FALSE, data |-> fs[path].bytes]
            ELSE [err |-> TRUE, data |-> ""]

\* the (err, data) fs.readFile hands to its callback for the file at `path`,
\* read from the file system as it is now
ReadFile(path) ==
    IF fs[path].exists
        THEN [err |-> FALSE, data |-> fs[path].bytes]
        ELSE [err |-> TRUE, data |-> ""]

\* ------------------------------------------------------------------ server
\* the three res.setHeader calls that open the handler
CorsHeaders(res) ==
    setHeader(
        setHeader(
            setHeader(res, "Access-Control-Allow-Origin", "*"),
            "Access-Control-Allow-Methods", "GET, OPTIONS"),
        "Access-Control-Allow-Headers", "Content-Type")

\* a route that looks at the URL before the method
RouteUrlFirst(method, url) ==
    IF url = "/" \/ url = "/africa.html" THEN "html"
    ELSE IF url = "/africa_monitoring.json" THEN "json"
    ELSE IF method = "OPTIONS" THEN "options"
    ELSE "notFound"

\* a route that serves the page for every path it does not know
RouteCatchAll(method, url) ==
    IF method = "OPTIONS" THEN "options"
    ELSE IF url = "/africa_monitoring.json" THEN "json"
    ELSE "html"

\* the branch of the handler a request takes: the method is compared with
\* OPTIONS only, the URL with the three served paths exactly
Route(method, url) ==
    IF method = "OPTIONS" THEN "options"
    ELSE IF url = "/" \/ url = "/africa.html" THEN "html"
    ELSE IF url = "/africa_monitoring.json" THEN "json"
    ELSE "notFound"

\* the synchronous part of the handler: CORS headers, then the OPTIONS branch
\* or the route on req.url; the two file routes leave a readFile pending
RequestHandler(r, method, url) ==
    /\ reqs[r].pc = "none"
    /\ LET res0 == CorsHeaders(NewResponse)
           req == [NoRequest EXCEPT !.method = method, !.url = url]
           branch == Route(method, url)
       IN  reqs' = [reqs EXCEPT ![r] =
             CASE branch = "options" ->
                    [req EXCEPT !.pc = "done",
                                !.res = end(writeHead(res0, 200, NoHeaders), "")]
               [] branch = "html" ->
                    [req EXCEPT !.pc = "readFile", !.res = res0,
                                !.filePath = pathJoin(DATA_DIR, "africa.html")]
               [] branch = "json" ->
                    [req EXCEPT !.pc = "readFile", !.res = res0,
                                !.filePath =
                                    pathJoin(DATA_DIR, "africa_monitoring.json")]
               [] OTHER ->
                    [req EXCEPT !.pc = "done",
                                !.res = end(writeHead(res0, 404,
                                              "Content-Type" :> "text/plain"),
                                            "404 Not Found")]]
    /\ UNCHANGED <<fs, updatePc, exitCode>>

\* an HTML callback that answers with Content-Type text/html, no charset
HtmlResponseNoCharset(res, rd) ==
    IF rd.err
      THEN end(writeHead(res, 404, "Content-Type" :> "text/plain"),
               "404 Not Found")
      ELSE end(writeHead(res, 200, "Content-Type" :> "text/html"), rd.data)

\* an HTML callback whose error branch does not return
HtmlResponseNoReturn(res, rd) ==
    LET res1 == IF rd.err
                  THEN end(writeHead(res, 404, "Content-Type" :> "text/plain"),
                           "404 Not Found")
                  ELSE res
    IN  end(writeHead(res1, 200, "Content-Type" :> "text/html; charset=utf-8"),
            rd.data)

\* the response the HTML route's callback writes for (err, data)
HtmlResponse(res, rd) ==
    IF rd.err
      THEN end(writeHead(res, 404, "Content-Type" :> "text/plain"),
               "404 Not Found")
      ELSE end(writeHead(res, 200, "Content-Type" :> "text/html; charset=utf-8"),
               rd.data)

\* a JSON callback that refuses data that does not parse
JsonResponseValidated(res, rd) ==
    IF rd.err \/ rd.data = "not json"
      THEN end(writeHead(res, 404, "Content-Type" :> "application/json"),
               JSONstringify("error", "Data not found"))
      ELSE end(writeHead(res, 200,
                         "Content-Type" :> "application/json; charset=utf-8"),
               rd.data)

\* the response the JSON route's callback writes for (err, data)
JsonResponse(res, rd) ==
    IF rd.err
      THEN end(writeHead(res, 404, "Content-Type" :> "application/json"),
               JSONstringify("error", "Data not found"))
      ELSE end(writeHead(res, 200,
                         "Content-Type" :> "application/json; charset=utf-8"),
               rd.data)

\* fs.readFile of africa.html completes and its callback answers request r
HtmlReadCallback(r) ==
    /\ reqs[r].pc = "readFile"
    /\ reqs[r].filePath = HtmlPath
    /\ LET rd == ReadFile(reqs[r].filePath)
       IN  reqs' = [reqs EXCEPT ![r] =
              [@ EXCEPT !.pc = "done", !.err = rd.err, !.data = rd.data,
                        !.res = HtmlResponse(@, rd)]]
    /\ UNCHANGED <<fs, updatePc, exitCode>>

\* a JSON callback that answers on a response object shared by the requests
\* (the one of the highest slot in use) instead of its own
JsonReadCallbackShared(r) ==
    /\ reqs[r].pc = "readFile"
    /\ reqs[r].filePath = JsonPath
    /\ LET rd == ReadFile(reqs[r].filePath)
           q == CHOOSE q \in ReqIds :
                   /\ reqs[q].pc # "none"
                   /\ \A p \in ReqIds : reqs[p].pc # "none" => p <= q
       IN  reqs' = [p \in ReqIds |->
              IF p = q /\ p = r
                THEN [reqs[p] EXCEPT !.pc = "done", !.err = rd.err,
                                     !.data = rd.data,
                                     !.res = JsonResponse(@, rd)]
              ELSE IF p = q
                THEN [reqs[p] EXCEPT !.res = JsonResponse(@, rd)]
              ELSE IF p = r
                THEN [reqs[p] EXCEPT !.pc = "done", !.err = rd.err,
                                     !.data = rd.data]
              ELSE reqs[p]]
    /\ UNCHANGED <<fs, updatePc, exitCode>>

\* fs.readFile of africa_monitoring.json completes and its callback answers
\* request r
JsonReadCallback(r) ==
    /\ reqs[r].pc = "readFile"
    /\ reqs[r].filePath = JsonPath
    /\ LET rd == ReadFile(reqs[r].filePath)
       IN  reqs' = [reqs EXCEPT ![r] =
              [@ EXCEPT !.pc = "done", !.err = rd.err, !.data = rd.data,
                        !.res = JsonResponse(@, rd)]]
    /\ UNCHANGED <<fs, updatePc, exitCode>>

\* ----------------------------------------------------------- update script
\* sleep 3600 ends and update_hourly.sh runs python3 africa_monitor.py: the
\* generator exits with some code, having written its output file, left it
\* as it was, or removed it
RunGenerator(code, out) ==
    /\ updatePc = "sleep"
    /\ exitCode' = code
    /\ fs' = [fs EXCEPT ![TmpPath] = out]
    /\ updatePc' = "check"
    /\ UNCHANGED reqs

\* an update that copies whatever file is there, whatever the exit code
CopyAlways ==
    /\ updatePc = "check"
    /\ fs' = IF fs[TmpPath].exists
               THEN [fs EXCEPT ![CpTarget] = fs[TmpPath]]
               ELSE fs
    /\ exitCode' = 0
    /\ updatePc' = "sleep"
    /\ UNCHANGED reqs

\* if [ $? -eq 0 ]; then if [ -f tmp ]; then cp tmp ./africa_monitoring.json;
\* the echo commands that follow leave $? at 0
CopyIfGenerated ==
    /\ updatePc = "check"
    /\ fs' = IF exitCode = 0 /\ fs[TmpPath].exists
               THEN [fs EXCEPT ![CpTarget] = fs[TmpPath]]
               ELSE fs
    /\ exitCode' = 0
    /\ updatePc' = "sleep"
    /\ UNCHANGED reqs

\* ------------------------------------------------- external file changes
\* the static page is deployed (again) by whoever maintains it
DeployHtml(c) ==
    /\ fs[HtmlPath] # File(c)
    /\ fs' = [fs EXCEPT ![HtmlPath] = File(c)]
    /\ UNCHANGED <<reqs, updatePc, exitCode>>

\* a served file is removed from outside the server
RemoveFile(p) ==
    /\ fs[p].exists
    /\ fs' = [fs EXCEPT ![p] = Absent]
    /\ UNCHANGED <<reqs, updatePc, exitCode>>

\* ----------------------------------------------------------- specification
Next ==
    \/ \E r \in ReqIds, m \in Methods, u \in Urls : RequestHandler(r, m, u)
    \/ \E r \in ReqIds : HtmlReadCallback(r)
    \/ \E r \in ReqIds : JsonReadCallback(r)
    \/ \E code \in ExitCodes, out \in {File(c) : c \in JsonContents} \cup {fs[TmpPath], Absent} :
          RunGenerator(code, out)
    \/ CopyIfGenerated
    \/ \E c \in HtmlContents : DeployHtml(c)
    \/ \E p \in {HtmlPath, JsonPath} : RemoveFile(p)

Spec == Init /\ [][Next]_vars

\* ------------------------------------------------------------- properties
\* the value of a header of a response, "<unset>" when it has none
Header(res, name) ==
    IF name \in DOMAIN res.headers THEN res.headers[name] ELSE "<unset>"

\* the three CORS headers are on the response
HasCors(res) ==
    /\ Header(res, "Access-Control-Allow-Origin") = "*"
    /\ Header(res, "Access-Control-Allow-Methods") = "GET, OPTIONS"
    /\ Header(res, "Access-Control-Allow-Headers") = "Content-Type"

\* this step is the one in which request r gets the answer of its file read
Answered(r) == reqs[r].pc = "readFile" /\ reqs'[r].pc = "done"

HtmlUrls == {"/", "/africa.html"}

JsonUrl == "/africa_monitoring.json"

ErrorJson == "{\"error\":\"Data not found\"}"

\* C1: a GET of "/" or "/africa.html" whose read of the page succeeds is
\* answered 200, text/html; charset=utf-8, with the bytes of the file as read
C1_HtmlServed ==
    [][\A r \in ReqIds :
         (/\ Answered(r)
          /\ reqs[r].method = "GET"
          /\ reqs[r].url \in HtmlUrls
          /\ fs["./africa.html"].exists)
         => /\ reqs'[r].res.statusCode = 200
            /\ Header(reqs'[r].res, "Content-Type") = "text/html; charset=utf-8"
            /\ reqs'[r].res.body = fs["./africa.html"].bytes]_vars

C1_Witness ==
    \E r \in ReqIds :
        /\ reqs[r].pc = "done" /\ reqs[r].method = "GET"
        /\ reqs[r].url = "/africa.html"
        /\ reqs[r].res.statusCode = 200
        /\ reqs[r].res.body = "<html>Africa</html>"

\* C2: a GET of "/africa_monitoring.json" whose read of the data file
\* succeeds is answered 200, application/json; charset=utf-8, with the bytes
\* of the file as read, whether they are JSON or not
C2_JsonServed ==
    [][\A r \in ReqIds :
         (/\ Answered(r)
          /\ reqs[r].method = "GET"
          /\ reqs[r].url = JsonUrl
          /\ fs["./africa_monitoring.json"].exists)
         => /\ reqs'[r].res.statusCode = 200
            /\ Header(reqs'[r].res, "Content-Type")
                  = "application/json; charset=utf-8"
            /\ reqs'[r].res.body = fs["./africa_monitoring.json"].bytes]_vars

C2_Witness ==
    \E r \in ReqIds :
        /\ reqs[r].pc = "done" /\ reqs[r].method = "GET"
        /\ reqs[r].url = JsonUrl
        /\ reqs[r].res.statusCode = 200
        /\ reqs[r].res.body = "not json"

\* C3: a GET of "/" or "/africa.html" whose read finds the page absent or
\* unreadable is answered 404, text/plain, "404 Not Found", by one end() call:
\* no 200 is written for it
C3_HtmlMissing ==
    [][\A r \in ReqIds :
         (/\ Answered(r)
          /\ reqs[r].method = "GET"
          /\ reqs[r].url \in HtmlUrls
          /\ ~fs["./africa.html"].exists)
         => /\ reqs'[r].res.statusCode = 404
            /\ Header(reqs'[r].res, "Content-Type") = "text/plain"
            /\ reqs'[r].res.body = "404 Not Found"
            /\ reqs'[r].res.ends = 1]_vars

C3_Witness ==
    \E r \in ReqIds :
        /\ reqs[r].pc = "done" /\ reqs[r].method = "GET"
        /\ reqs[r].url = "/"
        /\ reqs[r].err
        /\ reqs[r].res.statusCode = 404

\* C4: a GET of "/africa_monitoring.json" whose read finds the data file
\* absent or unreadable is answered 404 with the body
\* {"error":"Data not found"}, by one end() call: no 200 is written for it
C4_JsonMissing ==
    [][\A r \in ReqIds :
         (/\ Answered(r)
          /\ reqs[r].method = "GET"
          /\ reqs[r].url = JsonUrl
          /\ ~fs["./africa_monitoring.json"].exists)
         => /\ reqs'[r].res.statusCode = 404
            /\ reqs'[r].res.body = ErrorJson
            /\ reqs'[r].res.ends = 1]_vars

C4_Witness ==
    \E r \in ReqIds :
        /\ reqs[r].pc = "done" /\ reqs[r].method = "GET"
        /\ reqs[r].url = JsonUrl
        /\ reqs[r].err
        /\ reqs[r].res.statusCode = 404

\* C5: a request that is not OPTIONS and whose URL is none of the three
\* served paths is answered 404, text/plain, "404 Not Found" as soon as it is
\* handled, whatever files exist, and no read is started or delivered for it
C5_UnknownPath ==
    \A r \in ReqIds :
        (/\ reqs[r].pc # "none"
         /\ reqs[r].method # "OPTIONS"
         /\ reqs[r].url \notin HtmlUrls \cup {JsonUrl})
        => /\ reqs[r].pc = "done"
           /\ reqs[r].res.statusCode = 404
           /\ Header(reqs[r].res, "Content-Type") = "text/plain"
           /\ reqs[r].res.body = "404 Not Found"
           /\ reqs[r].res.ends = 1
           /\ reqs[r].filePath = "" /\ ~reqs[r].err /\ reqs[r].data = ""

C5_Witness ==
    \E r \in ReqIds :
        /\ reqs[r].pc = "done" /\ reqs[r].method = "POST"
        /\ reqs[r].url = "/unknown"
        /\ reqs[r].res.statusCode = 404
        /\ fs["./africa.html"].exists
        /\ fs["./africa_monitoring.json"].exists

\* C6: an OPTIONS request, whatever its URL and whatever files exist, is
\* answered 200 with an empty body and the CORS headers as soon as it is
\* handled, and no read is started or delivered for it
C6_Options ==
    \A r \in ReqIds :
        (reqs[r].pc # "none" /\ reqs[r].method = "OPTIONS")
        => /\ reqs[r].pc = "done"
           /\ reqs[r].res.statusCode = 200
           /\ reqs[r].res.body = ""
           /\ reqs[r].res.ends = 1
           /\ HasCors(reqs[r].res)
           /\ reqs[r].filePath = "" /\ ~reqs[r].err /\ reqs[r].data = ""

C6_Witness ==
    \E r \in ReqIds :
        /\ reqs[r].pc = "done" /\ reqs[r].method = "OPTIONS"
        /\ reqs[r].url = JsonUrl
        /\ reqs[r].res.statusCode = 200
        /\ fs["./africa_monitoring.json"].exists

\* C7: every response that was sent, on whichever branch, carries the three
\* CORS headers with their values
C7_CorsOnEveryResponse ==
    \A r \in ReqIds : reqs[r].res.ends > 0 => HasCors(reqs[r].res)

C7_Witness ==
    \E r, q \in ReqIds :
        /\ reqs[r].res.ends > 0 /\ reqs[r].res.statusCode = 200
        /\ Header(reqs[r].res, "Content-Type") = "text/html; charset=utf-8"
        /\ reqs[q].res.ends > 0 /\ reqs[q].res.statusCode = 404
        /\ Header(reqs[q].res, "Content-Type") = "application/json"

\* C8: the answer to a request for the data file reflects the file as it is
\* when that request's read happens, whatever earlier requests were answered:
\* the bytes now in the file with 200 when it exists, 404 when it does not
C8_ReadFresh ==
    [][\A r \in ReqIds :
         (Answered(r) /\ reqs[r].url = JsonUrl)
         => IF fs["./africa_monitoring.json"].exists
              THEN /\ reqs'[r].res.statusCode = 200
                   /\ reqs'[r].res.body = fs["./africa_monitoring.json"].bytes
              ELSE /\ reqs'[r].res.statusCode = 404
                   /\ reqs'[r].res.body \notin JsonContents]_vars

\* one request was answered 200 with the content the file had, the file is
\* gone, and the other request was answered 404
C8_Witness ==
    \E r, q \in ReqIds :
        /\ r # q
        /\ reqs[r].pc = "done" /\ reqs[r].url = JsonUrl
        /\ reqs[q].pc = "done" /\ reqs[q].url = JsonUrl
        /\ reqs[r].res.statusCode = 200
        /\ reqs[r].res.body = "{\"countries\":[]}"
        /\ ~fs["./africa_monitoring.json"].exists
        /\ reqs[q].res.statusCode = 404

\* the CORS headers of every response
CorsHeaderValues ==
    ("Access-Control-Allow-Origin" :> "*")
    @@ ("Access-Control-Allow-Methods" :> "GET, OPTIONS")
    @@ ("Access-Control-Allow-Headers" :> "Content-Type")

\* the response the routing table of the server gives a request, from the
\* request's own method and URL and the (err, data) of its own read
ExpectedResponse(method, url, err, data) ==
    IF method = "OPTIONS"
      THEN [statusCode |-> 200, headers |-> CorsHeaderValues,
            body |-> "", ends |-> 1]
    ELSE IF url \in HtmlUrls
      THEN IF err
             THEN [statusCode |-> 404,
                   headers |-> ("Content-Type" :> "text/plain")
                                  @@ CorsHeaderValues,
                   body |-> "404 Not Found", ends |-> 1]
             ELSE [statusCode |-> 200,
                   headers |-> ("Content-Type" :> "text/html; charset=utf-8")
                                  @@ CorsHeaderValues,
                   body |-> data, ends |-> 1]
    ELSE IF url = JsonUrl
      THEN IF err
             THEN [statusCode |-> 404,
                   headers |-> ("Content-Type" :> "application/json")
                                  @@ CorsHeaderValues,
                   body |-> ErrorJson, ends |-> 1]
             ELSE [statusCode |-> 200,
                   headers |-> ("Content-Type"
                                    :> "application/json; charset=utf-8")
                                  @@ CorsHeaderValues,
                   body |-> data, ends |-> 1]
    ELSE [statusCode |-> 404,
          headers |-> ("Content-Type" :> "text/plain") @@ CorsHeaderValues,
          body |-> "404 Not Found", ends |-> 1]

\* C9: with several requests in flight and their reads completing in any
\* order, no request is answered more than once, a request whose read is
\* pending is not answered yet, and a finished request holds exactly one
\* response, the one its own method, URL and read result determine
C9_Independent ==
    \A r \in ReqIds :
        /\ reqs[r].res.ends <= 1
        /\ reqs[r].pc \in {"none", "readFile"} => reqs[r].res.ends = 0
        /\ reqs[r].pc = "done" =>
              reqs[r].res = ExpectedResponse(reqs[r].method, reqs[r].url,
                                             reqs[r].err, reqs[r].data)

\* two requests with the same method and URL hold different responses, each
\* from its own read
C9_Witness ==
    \E r, q \in ReqIds :
        /\ reqs[r].pc = "done" /\ reqs[q].pc = "done"
        /\ reqs[r].method = "GET" /\ reqs[q].method = "GET"
        /\ reqs[r].url = JsonUrl /\ reqs[q].url = JsonUrl
        /\ reqs[r].res.statusCode = 200 /\ ~reqs[r].err
        /\ reqs[q].res.statusCode = 404 /\ reqs[q].err

====
